---- MODULE Spec2Model ----
(***************************************************************************)
(* nanocode (src/nanocode.py): the REPL and agent loop of main(), the tool *)
(* registry (run_tool and the executors), the shell tool's read loop, and  *)
(* the provider adapters of call_api.                                      *)
(*                                                                         *)
(* Python strings are TLA+ strings (Len, SubSeq and \o act on them);       *)
(* dicts are functions with a set of string keys as domain; lists are      *)
(* sequences.  An executor's outcome is a record [raised, value, fs]:      *)
(* raised = TRUE models a Python Exception carrying str(err) = value.      *)
(***************************************************************************)
EXTENDS Integers, Sequences, FiniteSets, TLC

VARIABLES
    keys,            \* the environment's credentials (lines 7-9)
    PROVIDER,        \* module-level PROVIDER (lines 12-23)
    messages,        \* main(): the conversation
    pc,              \* main(): where the REPL is
    request,         \* call_api: <<the request awaiting its response>>, else <<>>
    content_blocks,  \* main(): the decoded blocks of the response being processed
    tool_results,    \* main(): the tool_result blocks collected so far
    idx,             \* main(): position of the for loop in content_blocks
    notice,          \* main(): the last top-level notice printed by the REPL
    fs,              \* the files the tools act on, most recently written first
    sh,              \* bash(): the subprocess, its pipe and the read loop
    tc               \* the last direct run_tool call and what it returned

vars == <<keys, PROVIDER, messages, pc, request, content_blocks, tool_results,
          idx, notice, fs, sh, tc>>

(***************************************************************************)
(* Bounds of the model.                                                    *)
(***************************************************************************)
MaxMsgs == 4     \* the conversation is explored up to this many turns
MaxOver == 3     \* clock ticks explored past the shell tool's timeout
MaxLines == 2    \* output lines a subprocess may produce
MaxRounds == 3   \* tool rounds per prompt explored in SpecTurns
MaxText == 3     \* characters of a file text that edit is explored on
MaxShellRounds == 1  \* tool rounds per prompt explored in SpecShell

(***************************************************************************)
(* Python string helpers.                                                  *)
(***************************************************************************)
IsSpace(c) == c \in {" ", "\n", "\t"}

RECURSIVE lstrip(_)
lstrip(s) ==
    IF Len(s) = 0 THEN s
    ELSE IF IsSpace(SubSeq(s, 1, 1)) THEN lstrip(SubSeq(s, 2, Len(s)))
    ELSE s

RECURSIVE rstrip(_)
rstrip(s) ==
    IF Len(s) = 0 THEN s
    ELSE IF IsSpace(SubSeq(s, Len(s), Len(s))) THEN rstrip(SubSeq(s, 1, Len(s) - 1))
    ELSE s

\* faulty variant: only the left end is stripped
strip_left(s) == lstrip(s)

strip(s) == rstrip(lstrip(s))

\* "".join(xs) for sep = "", sep.join(xs) in general
RECURSIVE join(_, _)
join(sep, xs) ==
    IF Len(xs) = 0 THEN ""
    ELSE IF Len(xs) = 1 THEN xs[1]
    ELSE xs[1] \o sep \o join(sep, Tail(xs))

startswith(s, p) == Len(s) >= Len(p) /\ SubSeq(s, 1, Len(p)) = p

endswith(s, p) == Len(s) >= Len(p) /\ SubSeq(s, Len(s) - Len(p) + 1, Len(s)) = p

\* the least i >= from with text[i .. i+Len(old)-1] = old, 0 if none (str.find, 1-based)
RECURSIVE find(_, _, _)
find(text, old, from) ==
    IF from + Len(old) - 1 > Len(text) THEN 0
    ELSE IF SubSeq(text, from, from + Len(old) - 1) = old THEN from
    ELSE find(text, old, from + 1)

contains(text, old) == find(text, old, 1) # 0

\* str.count: non-overlapping occurrences, scanning left to right
RECURSIVE count(_, _)
count(text, old) ==
    IF Len(old) = 0 THEN Len(text) + 1
    ELSE LET i == find(text, old, 1)
         IN IF i = 0 THEN 0
            ELSE 1 + count(SubSeq(text, i + Len(old), Len(text)), old)

\* str.replace(old, new, n); n < 0 replaces every occurrence.  An empty old
\* matches before every character and at the end.
RECURSIVE replace(_, _, _, _)
replace(text, old, new, n) ==
    IF n = 0 THEN text
    ELSE IF Len(old) = 0 THEN
        IF Len(text) = 0 THEN new
        ELSE new \o SubSeq(text, 1, 1) \o
             (IF Len(text) = 1 /\ n # 1 THEN new
              ELSE replace(SubSeq(text, 2, Len(text)), old, new, n - 1))
    ELSE LET i == find(text, old, 1)
         IN IF i = 0 THEN text
            ELSE SubSeq(text, 1, i - 1) \o new
                 \o replace(SubSeq(text, i + Len(old), Len(text)), old, new, n - 1)

\* str(n) for a natural number
Digit(d) == CASE d = 0 -> "0" [] d = 1 -> "1" [] d = 2 -> "2" [] d = 3 -> "3"
              [] d = 4 -> "4" [] d = 5 -> "5" [] d = 6 -> "6" [] d = 7 -> "7"
              [] d = 8 -> "8" [] OTHER -> "9"

RECURSIVE str(_)
str(n) == IF n < 10 THEN Digit(n) ELSE str(n \div 10) \o Digit(n % 10)

\* f"{n:4}": right-aligned in a field of width 4
RECURSIVE pad4(_)
pad4(s) == IF Len(s) >= 4 THEN s ELSE pad4(" " \o s)

\* file.readlines(): the lines of text, each keeping its "\n"
RECURSIVE readlines(_)
readlines(text) ==
    IF Len(text) = 0 THEN <<>>
    ELSE LET i == find(text, "\n", 1)
         IN IF i = 0 THEN <<text>>
            ELSE <<SubSeq(text, 1, i)>> \o readlines(SubSeq(text, i + 1, Len(text)))

\* dict.get(key, default)
get(d, k, default) == IF k \in DOMAIN d THEN d[k] ELSE default

\* Python truthiness of args.get("all")
truthy_all(args) == IF "all" \in DOMAIN args THEN args["all"] = TRUE ELSE FALSE

(***************************************************************************)
(* The files the tools act on: a sequence of [path, text] with no path     *)
(* twice, ordered by modification time, newest first (the order glob's     *)
(* sort by os.path.getmtime produces).                                     *)
(***************************************************************************)
isfile(f, path) == \E i \in 1..Len(f) : f[i].path = path

filetext(f, path) == (CHOOSE e \in {f[i] : i \in 1..Len(f)} : e.path = path).text

RECURSIVE without(_, _)
without(f, path) ==
    IF Len(f) = 0 THEN <<>>
    ELSE IF f[1].path = path THEN without(Tail(f), path)
    ELSE <<f[1]>> \o without(Tail(f), path)

\* open(path, "w") followed by f.write(text)
writefile(f, path, text) == <<[path |-> path, text |-> text]>> \o without(f, path)

Return(v, f) == [raised |-> FALSE, value |-> v, fs |-> f]

Raise(v, f) == [raised |-> TRUE, value |-> v, fs |-> f]

\* str(KeyError(k))
KeyError(k) == "'" \o k \o "'"

\* str(FileNotFoundError) of open(path)
FileNotFoundError(path) == "[Errno 2] No such file or directory: '" \o path \o "'"

(***************************************************************************)
(* Tool implementations (lines 71-144).                                    *)
(***************************************************************************)
RECURSIVE numbered(_, _)
numbered(selected, first) ==
    IF Len(selected) = 0 THEN ""
    ELSE pad4(str(first)) \o "| " \o selected[1] \o numbered(Tail(selected), first + 1)

read(args, f) ==
    IF "path" \notin DOMAIN args THEN Raise(KeyError("path"), f)
    ELSE IF ~isfile(f, args["path"]) THEN Raise(FileNotFoundError(args["path"]), f)
    ELSE LET lines == readlines(filetext(f, args["path"]))
             offset == get(args, "offset", 0)
             limit == get(args, "limit", Len(lines))
             last == IF offset + limit < Len(lines) THEN offset + limit ELSE Len(lines)
             selected == SubSeq(lines, offset + 1, last)
         IN Return(numbered(selected, offset + 1), f)

write(args, f) ==
    IF "path" \notin DOMAIN args THEN Raise(KeyError("path"), f)
    \* open(path, "w") has truncated the file when args["content"] is looked up
    ELSE IF "content" \notin DOMAIN args
         THEN Raise(KeyError("content"), writefile(f, args["path"], ""))
    ELSE Return("ok", writefile(f, args["path"], args["content"]))

\* faulty variant: the first occurrence is replaced whatever the count
edit_first(args, f) ==
    IF "path" \notin DOMAIN args THEN Raise(KeyError("path"), f)
    ELSE IF ~isfile(f, args["path"]) THEN Raise(FileNotFoundError(args["path"]), f)
    ELSE IF "old" \notin DOMAIN args THEN Raise(KeyError("old"), f)
    ELSE IF "new" \notin DOMAIN args THEN Raise(KeyError("new"), f)
    ELSE LET text == filetext(f, args["path"])
         IN IF ~contains(text, args["old"]) THEN Return("error: old_string not found", f)
            ELSE Return("ok", writefile(f, args["path"],
                     replace(text, args["old"], args["new"],
                             IF truthy_all(args) THEN -1 ELSE 1)))

edit(args, f) ==
    IF "path" \notin DOMAIN args THEN Raise(KeyError("path"), f)
    ELSE IF ~isfile(f, args["path"]) THEN Raise(FileNotFoundError(args["path"]), f)
    ELSE IF "old" \notin DOMAIN args THEN Raise(KeyError("old"), f)
    ELSE IF "new" \notin DOMAIN args THEN Raise(KeyError("new"), f)
    ELSE LET text == filetext(f, args["path"])
             old == args["old"]
             new == args["new"]
             cnt == count(text, old)
         IN IF ~contains(text, old) THEN Return("error: old_string not found", f)
            ELSE IF ~truthy_all(args) /\ cnt > 1
                 THEN Return("error: old_string appears " \o str(cnt)
                             \o " times, must be unique (use all=true)", f)
            ELSE LET replacement == IF truthy_all(args) THEN replace(text, old, new, -1)
                                    ELSE replace(text, old, new, 1)
                 IN Return("ok", writefile(f, args["path"], replacement))

\* fnmatch of one path against a pattern: "*" matches any run of characters
\* other than "/", every other character matches itself
RECURSIVE globmatch(_, _)
globmatch(pat, s) ==
    IF Len(pat) = 0 THEN Len(s) = 0
    ELSE IF SubSeq(pat, 1, 1) = "*"
         THEN \/ globmatch(SubSeq(pat, 2, Len(pat)), s)
              \/ /\ Len(s) > 0
                 /\ SubSeq(s, 1, 1) # "/"
                 /\ globmatch(pat, SubSeq(s, 2, Len(s)))
    ELSE /\ Len(s) > 0
         /\ SubSeq(pat, 1, 1) = SubSeq(s, 1, 1)
         /\ globmatch(SubSeq(pat, 2, Len(pat)), SubSeq(s, 2, Len(s)))

\* the paths under directory dir that match pattern, newest first
RECURSIVE matching(_, _, _)
matching(f, dir, pattern) ==
    IF Len(f) = 0 THEN <<>>
    ELSE (IF globmatch(pattern, dir \o "/" \o f[1].path)
          THEN <<dir \o "/" \o f[1].path>> ELSE <<>>)
         \o matching(Tail(f), dir, pattern)

glob(args, f) ==
    LET dir == get(args, "path", ".")
    IN IF "pat" \notin DOMAIN args THEN Raise(KeyError("pat"), f)
       ELSE LET pattern == replace(dir \o "/" \o args["pat"], "//", "/", -1)
                files == matching(f, dir, pattern)
            IN Return(IF Len(files) = 0 THEN "none" ELSE join("\n", files), f)

\* re.compile(pat): str(re.error) for an unbalanced group or set or a leading
\* repeat, "" when the pattern compiles
re_error(pat) ==
    IF count(pat, "(") # count(pat, ")")
    THEN "missing ), unterminated subpattern at position 0"
    ELSE IF count(pat, "[") # count(pat, "]")
    THEN "unterminated character set at position 0"
    ELSE IF Len(pat) > 0 /\ SubSeq(pat, 1, 1) \in {"*", "+", "?"}
    THEN "nothing to repeat at position 0"
    ELSE ""

\* the hits of one file: pattern.search(line) of a pattern without
\* metacharacters is substring containment
RECURSIVE filehits(_, _, _, _)
filehits(filepath, lines, pat, line_num) ==
    IF Len(lines) = 0 THEN <<>>
    ELSE (IF contains(lines[1], pat)
          THEN <<filepath \o ":" \o str(line_num) \o ":" \o rstrip(lines[1])>>
          ELSE <<>>)
         \o filehits(filepath, Tail(lines), pat, line_num + 1)

RECURSIVE allhits(_, _, _)
allhits(f, dir, pat) ==
    IF Len(f) = 0 THEN <<>>
    ELSE filehits(dir \o "/" \o f[1].path, readlines(f[1].text), pat, 1)
         \o allhits(Tail(f), dir, pat)

grep(args, f) ==
    IF "pat" \notin DOMAIN args THEN Raise(KeyError("pat"), f)
    ELSE IF re_error(args["pat"]) # "" THEN Raise(re_error(args["pat"]), f)
    ELSE LET hits == allhits(f, get(args, "path", "."), args["pat"])
             first50 == SubSeq(hits, 1, IF Len(hits) < 50 THEN Len(hits) ELSE 50)
         IN Return(IF Len(first50) = 0 THEN "none" ELSE join("\n", first50), f)

(***************************************************************************)
(* bash (lines 125-144).  The subprocess is the environment: while it runs *)
(* it may write a line, close its stdout, or exit, at any time.  sh holds  *)
(* the subprocess, the pipe, the clock since Popen and bash's position:    *)
(* "readline" (line 134), "wait" (line 140), "returned" (line 144).        *)
(***************************************************************************)
Timeout == 30

\* everything but sh
notsh == <<keys, PROVIDER, messages, pc, request, content_blocks, tool_results,
           idx, notice, fs, tc>>

TimeoutMarker == "\n(timed out after 30s)"

Lines == {"hi\n", " \n"}

ShIdle == [pc |-> "idle", proc |-> "none", stdout_open |-> FALSE, pipe |-> <<>>,
           written |-> <<>>, clock |-> 0, waited |-> 0, output_lines |-> <<>>,
           result |-> "", returned_at |-> 0]

\* faulty variant: no marker for an empty result
bashresult_nomarker(output_lines) == strip(join("", output_lines))

\* line 144
bashresult(output_lines) ==
    LET s == strip(join("", output_lines))
    IN IF s = "" THEN "(empty)" ELSE s

\* lines 126-130
Popen(args) ==
    /\ sh.pc = "idle"
    /\ "cmd" \in DOMAIN args
    /\ sh' = [ShIdle EXCEPT !.pc = "readline", !.proc = "running", !.stdout_open = TRUE]
    /\ UNCHANGED notsh

\* the subprocess writes one line to its stdout
ProcWrite(line) ==
    /\ sh.proc = "running"
    /\ sh.stdout_open
    /\ Len(sh.written) < MaxLines
    /\ sh' = [sh EXCEPT !.pipe = Append(@, line), !.written = Append(@, line)]
    /\ UNCHANGED notsh

\* the subprocess closes its stdout and keeps running
ProcClose ==
    /\ sh.proc = "running"
    /\ sh.stdout_open
    /\ sh' = [sh EXCEPT !.stdout_open = FALSE]
    /\ UNCHANGED notsh

\* the subprocess exits on its own
ProcExit ==
    /\ sh.proc = "running"
    /\ sh' = [sh EXCEPT !.proc = "exited", !.stdout_open = FALSE]
    /\ UNCHANGED notsh

\* one second passes while bash has not returned
Tick ==
    /\ sh.pc \in {"readline", "wait"}
    /\ sh.clock < Timeout + MaxOver
    /\ sh' = [sh EXCEPT !.clock = @ + 1,
                        !.waited = IF sh.pc = "wait" THEN @ + 1 ELSE @]
    /\ UNCHANGED notsh

\* lines 133-139: readline() blocks until a line is buffered or the write end
\* is closed; at end of file it returns "" and the loop ends only if poll()
\* reports that the subprocess has exited
ReadLoop ==
    /\ sh.pc = "readline"
    /\ \/ /\ Len(sh.pipe) > 0
          /\ sh' = [sh EXCEPT !.pipe = Tail(@),
                              !.output_lines = Append(@, Head(sh.pipe))]
       \/ /\ Len(sh.pipe) = 0
          /\ ~sh.stdout_open
          /\ sh' = [sh EXCEPT !.pc = IF sh.proc # "running" THEN "wait" ELSE @]
    /\ UNCHANGED notsh

\* lines 140-144: proc.wait(timeout=30) returns once the subprocess has
\* exited, and raises TimeoutExpired 30 seconds after the call otherwise
WaitAndReturn ==
    /\ sh.pc = "wait"
    /\ IF sh.proc # "running"
       THEN sh' = [sh EXCEPT !.pc = "returned", !.returned_at = sh.clock,
                             !.result = bashresult(sh.output_lines)]
       ELSE /\ sh.waited >= Timeout
            /\ sh' = [sh EXCEPT !.pc = "returned", !.returned_at = sh.clock,
                                !.proc = "killed",
                                !.output_lines = Append(@, TimeoutMarker),
                                !.result = bashresult(Append(sh.output_lines,
                                                             TimeoutMarker))]
    /\ UNCHANGED notsh

\* bash as run_tool's caller sees it when the subprocess writes output_lines
\* and exits: the read loop collects every line and the wait returns at once
bash(args, f, output_lines) ==
    IF "cmd" \notin DOMAIN args THEN Raise(KeyError("cmd"), f)
    ELSE Return(bashresult(output_lines), f)

(***************************************************************************)
(* The registry (lines 149-187).                                           *)
(***************************************************************************)
TOOLS == {"read", "write", "edit", "glob", "grep", "bash"}

\* TOOLS[name][2](args); output_lines is what a subprocess of bash writes
executor(name, args, f, output_lines) ==
    CASE name = "read" -> read(args, f)
      [] name = "write" -> write(args, f)
      [] name = "edit" -> edit(args, f)
      [] name = "glob" -> glob(args, f)
      [] name = "grep" -> grep(args, f)
      [] name = "bash" -> bash(args, f, output_lines)
      [] OTHER -> Raise(KeyError(name), f)

\* faulty variant: run_tool without its try/except
run_tool_nocatch(name, args, f, output_lines) == executor(name, args, f, output_lines)

\* lines 183-187: the outcome as the caller sees it
run_tool(name, args, f, output_lines) ==
    LET r == executor(name, args, f, output_lines)
    IN IF r.raised THEN Return("error: " \o r.value, r.fs) ELSE r

(***************************************************************************)
(* Provider selection (lines 7-23).  A credential is "" when the           *)
(* environment variable is unset or empty (both are false in Python).      *)
(***************************************************************************)
Environments == [GEMINI_KEY : {"", "g-key"}, OPENROUTER_KEY : {"", "or-key"},
                 ANTHROPIC_KEY : {"", "a-key"}]

\* faulty variant: the proxy credential is looked at first
provider_proxy_first(env) ==
    IF env.OPENROUTER_KEY # "" THEN "openrouter"
    ELSE IF env.GEMINI_KEY # "" THEN "gemini"
    ELSE "anthropic"

provider(env) ==
    IF env.GEMINI_KEY # "" THEN "gemini"
    ELSE IF env.OPENROUTER_KEY # "" THEN "openrouter"
    ELSE "anthropic"

API_URL(prov) ==
    CASE prov = "gemini" ->
           "https://generativelanguage.googleapis.com/v1beta/models/MODEL:generateContent"
      [] prov = "openrouter" -> "https://openrouter.ai/api/v1/messages"
      [] OTHER -> "https://api.anthropic.com/v1/messages"

(***************************************************************************)
(* make_schema (lines 190-235).                                            *)
(***************************************************************************)
PARAMS == [read |-> [path |-> "string", offset |-> "number?", limit |-> "number?"],
           write |-> [path |-> "string", content |-> "string"],
           edit |-> [path |-> "string", old |-> "string", new |-> "string",
                     all |-> "boolean?"],
           glob |-> [pat |-> "string", path |-> "string?"],
           grep |-> [pat |-> "string", path |-> "string?"],
           bash |-> [cmd |-> "string"]]

base_type(param_type) ==
    IF endswith(param_type, "?") THEN SubSeq(param_type, 1, Len(param_type) - 1)
    ELSE param_type

type_tag(prov, param_type) ==
    LET b == base_type(param_type)
    IN IF prov = "gemini" /\ b = "string" THEN "STRING"
       ELSE IF prov = "gemini" /\ b = "number" THEN "NUMBER"
       ELSE IF prov = "gemini" /\ b = "boolean" THEN "BOOLEAN"
       ELSE IF b = "number" THEN "integer"
       ELSE b

make_schema(prov) ==
    [name \in TOOLS |->
        LET params == PARAMS[name]
            properties == [q \in DOMAIN params |-> [type |-> type_tag(prov, params[q])]]
            required == {q \in DOMAIN params : ~endswith(params[q], "?")}
        IN IF prov = "gemini"
           THEN [name |-> name,
                 parameters |-> [type |-> "OBJECT", properties |-> properties,
                                 required |-> required]]
           ELSE [name |-> name,
                 input_schema |-> [type |-> "object", properties |-> properties,
                                   required |-> required]]]

(***************************************************************************)
(* The conversation.  A turn is [role, content]; content is [str |-> s]    *)
(* for a Python str and [list |-> blocks] for a Python list.               *)
(***************************************************************************)
UserText(s) == [role |-> "user", content |-> [str |-> s]]

Turn(role, blocks) == [role |-> role, content |-> [list |-> blocks]]

isstr(content) == "str" \in DOMAIN content

(***************************************************************************)
(* The Gemini adapter (lines 238-297).                                     *)
(***************************************************************************)
gemini_part(item) ==
    IF item["type"] = "text" THEN <<[text |-> item["text"]]>>
    ELSE IF item["type"] = "tool_use"
         THEN <<[functionCall |-> [name |-> item["name"], args |-> item["input"]]]>>
    ELSE IF item["type"] = "tool_result"
         THEN <<[functionResponse |-> [name |-> "tool_result",
                                       response |-> [result |-> item["content"]]]]>>
    ELSE <<>>

RECURSIVE gemini_parts(_)
gemini_parts(items) ==
    IF Len(items) = 0 THEN <<>>
    ELSE gemini_part(items[1]) \o gemini_parts(Tail(items))

RECURSIVE convert_messages_to_gemini(_)
convert_messages_to_gemini(msgs) ==
    IF Len(msgs) = 0 THEN <<>>
    ELSE LET msg == msgs[1]
             role == IF msg.role = "user" THEN "user" ELSE "model"
             parts == IF isstr(msg.content) THEN <<[text |-> msg.content.str]>>
                      ELSE gemini_parts(msg.content.list)
         IN (IF isstr(msg.content) \/ Len(parts) > 0
             THEN <<[role |-> role, parts |-> parts]>> ELSE <<>>)
            \o convert_messages_to_gemini(Tail(msgs))

\* faulty variant: the id is read from the part, which carries none
call_id_frompart(fc) == get(fc, "id", "")

\* line 292: the id of the tool_use block of a functionCall
call_id(fc) == get(fc, "name", "unknown") \o "_call"

\* lines 285-295: the blocks of the parts; raised when a functionCall has no name
RECURSIVE gemini_blocks(_)
gemini_blocks(parts) ==
    IF Len(parts) = 0 THEN [raised |-> FALSE, value |-> <<>>]
    ELSE LET part == parts[1]
             rest == gemini_blocks(Tail(parts))
         IN IF rest.raised /\ ~("functionCall" \in DOMAIN part /\ "text" \notin DOMAIN part)
            THEN rest
            ELSE IF "text" \in DOMAIN part
            THEN [rest EXCEPT !.value = <<[type |-> "text", text |-> part["text"]]>> \o @]
            ELSE IF "functionCall" \in DOMAIN part
            THEN LET fc == part["functionCall"]
                 IN IF "name" \notin DOMAIN fc
                    THEN [raised |-> TRUE, value |-> KeyError("name")]
                    ELSE IF rest.raised THEN rest
                    ELSE [rest EXCEPT !.value =
                             <<[type |-> "tool_use",
                                id |-> call_id(fc),
                                name |-> fc["name"],
                                input |-> get(fc, "args", <<>>)]>> \o @]
            ELSE rest

\* faulty variant: the first candidate is taken without looking whether there is one
convert_gemini_response_unguarded(gemini_response) ==
    IF "candidates" \notin DOMAIN gemini_response
    THEN [raised |-> TRUE, value |-> KeyError("candidates")]
    ELSE IF Len(gemini_response["candidates"]) = 0
    THEN [raised |-> TRUE, value |-> "list index out of range"]
    ELSE LET candidate == gemini_response["candidates"][1]
         IN IF "content" \notin DOMAIN candidate
            THEN [raised |-> FALSE,
                  value |-> [content |->
                      <<[type |-> "text", text |-> "Empty response from Gemini."]>>]]
            ELSE LET b == gemini_blocks(get(candidate["content"], "parts", <<>>))
                 IN IF b.raised THEN b
                    ELSE [raised |-> FALSE, value |-> [content |-> b.value]]

convert_gemini_response(gemini_response) ==
    IF "candidates" \notin DOMAIN gemini_response
       \/ Len(gemini_response["candidates"]) = 0
    THEN [raised |-> FALSE,
          value |-> [content |-> <<[type |-> "text", text |-> "No response from Gemini."]>>]]
    ELSE LET candidate == gemini_response["candidates"][1]
         IN IF "content" \notin DOMAIN candidate
            THEN [raised |-> FALSE,
                  value |-> [content |->
                      <<[type |-> "text", text |-> "Empty response from Gemini."]>>]]
            ELSE LET b == gemini_blocks(get(candidate["content"], "parts", <<>>))
                 IN IF b.raised THEN b
                    ELSE [raised |-> FALSE, value |-> [content |-> b.value]]

(***************************************************************************)
(* call_api (lines 300-341): the request it sends and what it returns for  *)
(* the JSON document the provider answers with.                            *)
(***************************************************************************)
SYSTEM_PROMPT == "Concise coding assistant."

encode_request(prov, env, msgs) ==
    IF prov = "gemini"
    THEN [url |-> API_URL(prov) \o "?key=" \o env.GEMINI_KEY,
          headers |-> [ContentType |-> "application/json"],
          body |-> [contents |-> convert_messages_to_gemini(msgs),
                    tools |-> [functionDeclarations |-> make_schema(prov)],
                    systemInstruction |-> [parts |-> <<[text |-> SYSTEM_PROMPT]>>]]]
    ELSE [url |-> API_URL(prov),
          headers |-> IF env.OPENROUTER_KEY # ""
                      THEN [ContentType |-> "application/json",
                            anthropic_version |-> "2023-06-01",
                            Authorization |-> "Bearer " \o env.OPENROUTER_KEY]
                      ELSE [ContentType |-> "application/json",
                            anthropic_version |-> "2023-06-01",
                            x_api_key |-> env.ANTHROPIC_KEY],
          body |-> [model |-> "MODEL", max_tokens |-> 8192, system |-> SYSTEM_PROMPT,
                    messages |-> msgs, tools |-> make_schema(prov)]]

decode_response(prov, wire) ==
    IF prov = "gemini" THEN convert_gemini_response(wire)
    ELSE [raised |-> FALSE, value |-> wire]

(***************************************************************************)
(* What the environment feeds the program: typed lines, the JSON documents *)
(* a provider answers with, and the lines a subprocess writes.             *)
(***************************************************************************)
RawInputs == {"", "  ", "/q", "exit", "/c", " /c ", "/i", "fix it", " fix it "}

TextBlock == [type |-> "text", text |-> "done"]

WriteUse == [type |-> "tool_use", id |-> "toolu_1", name |-> "write",
             input |-> [path |-> "a.txt", content |-> "hi"]]

UnknownUse == [type |-> "tool_use", id |-> "toolu_2", name |-> "search",
               input |-> [q |-> "x"]]

MissingArgUse == [type |-> "tool_use", id |-> "toolu_3", name |-> "read",
                  input |-> [offset |-> 1]]

EmptyArgsUse == [type |-> "tool_use", id |-> "toolu_4", name |-> "glob", input |-> <<>>]

StyleABlocks == {TextBlock, WriteUse, UnknownUse, MissingArgUse, EmptyArgsUse}

\* Style-A documents: a content list of up to two blocks, or no content key
StyleAResponses ==
    {[content |-> <<>>], [id |-> "msg_1"]}
    \cup {[content |-> <<a>>] : a \in StyleABlocks}
    \cup {[content |-> <<a, b>>] : a \in StyleABlocks, b \in StyleABlocks}

GeminiParts == {[text |-> "done"],
                [functionCall |-> [name |-> "write",
                                   args |-> [path |-> "a.txt", content |-> "hi"]]],
                [functionCall |-> [name |-> "search", args |-> [q |-> "x"]]],
                [functionCall |-> [name |-> "read", args |-> [offset |-> 1]]],
                [functionCall |-> [name |-> "glob"]]}

GeminiCandidate(parts) == [candidates |-> <<[content |-> [parts |-> parts]]>>]

\* Style-B documents: no candidates, a candidate without content or parts,
\* a functionCall without a name, or up to two parts
GeminiResponses ==
    {[promptFeedback |-> "blocked"], [candidates |-> <<>>],
     [candidates |-> <<[finishReason |-> "SAFETY"]>>],
     [candidates |-> <<[content |-> [role |-> "model"]]>>],
     GeminiCandidate(<<[functionCall |-> [args |-> [q |-> "x"]]]>>),
     GeminiCandidate(<<>>)}
    \cup {GeminiCandidate(<<a>>) : a \in GeminiParts}
    \cup {GeminiCandidate(<<a, b>>) : a \in GeminiParts, b \in GeminiParts}

WireResponses(prov) == IF prov = "gemini" THEN GeminiResponses ELSE StyleAResponses

is_tool_use(block) == "type" \in DOMAIN block /\ block["type"] = "tool_use"

tool_uses(blocks) == SelectSeq(blocks, is_tool_use)

(***************************************************************************)
(* main (lines 352-426).  pc is the statement the REPL is at:              *)
(*   "input"     blocked in input(), line 364 (AwaitingInput)              *)
(*   "call"      inside call_api, line 382 (RequestSent)                   *)
(*   "blocks"    in the for loop over content_blocks, lines 386-413        *)
(*   "appended"  between lines 415 and 417                                 *)
(*   "exit"      main has returned                                         *)
(***************************************************************************)
Init ==
    /\ keys \in Environments
    /\ PROVIDER = provider(keys)
    /\ messages = <<>>
    /\ pc = "input"
    /\ request = <<>>
    /\ content_blocks = <<>>
    /\ tool_results = <<>>
    /\ idx = 1
    /\ notice = ""
    /\ fs = <<>>
    /\ sh = ShIdle
    /\ tc = [called |-> FALSE]

\* faulty variant: the result is tagged with the tool's name instead of the id
tool_result_by_name(block, result) ==
    [type |-> "tool_result", tool_use_id |-> block["name"], content |-> result]

\* lines 408-412: the tool_result block of a tool_use block
tool_result(block, result) ==
    [type |-> "tool_result", tool_use_id |-> block["id"], content |-> result]

\* faulty variant: the newest result is put first
collect_front(results, r) == <<r>> \o results

\* line 407: tool_results.append
collect(results, r) == Append(results, r)

\* line 426: the REPL prints the error and goes back to the prompt
ReplError(err) ==
    /\ notice' = "Error: " \o err
    /\ pc' = "input"

\* the exception an unsuccessful urlopen or json.loads raises
TransportErrors == {"HTTP Error 529: Overloaded"}

\* faulty variant: the request goes out before the prompt is appended
InputUpTo_sendfirst(raw, limit) ==
    /\ pc = "input"
    /\ LET user_input == strip(raw)
       IN IF user_input = ""
          THEN /\ notice' = ""
               /\ UNCHANGED <<messages, pc, request>>
          ELSE IF user_input \in {"/q", "exit"}
          THEN /\ pc' = "exit"
               /\ notice' = ""
               /\ UNCHANGED <<messages, request>>
          ELSE IF user_input = "/c"
          THEN /\ messages' = <<>>
               /\ notice' = "Cleared conversation"
               /\ UNCHANGED <<pc, request>>
          ELSE IF user_input = "/i"
          THEN /\ notice' = "System Info"
               /\ UNCHANGED <<messages, pc, request>>
          ELSE /\ Len(messages) < limit
               /\ messages' = Append(messages, UserText(user_input))
               /\ request' = <<encode_request(PROVIDER, keys, messages)>>
               /\ pc' = "call"
               /\ notice' = ""
    /\ UNCHANGED <<keys, PROVIDER, content_blocks, tool_results, idx, fs, sh, tc>>

\* lines 364-382: one line is read; a prompt is appended and sent (explored
\* while the conversation has fewer than limit turns)
InputUpTo(raw, limit) ==
    /\ pc = "input"
    /\ LET user_input == strip(raw)
       IN IF user_input = ""
          THEN /\ notice' = ""
               /\ UNCHANGED <<messages, pc, request>>
          ELSE IF user_input \in {"/q", "exit"}
          THEN /\ pc' = "exit"
               /\ notice' = ""
               /\ UNCHANGED <<messages, request>>
          ELSE IF user_input = "/c"
          THEN /\ messages' = <<>>
               /\ notice' = "Cleared conversation"
               /\ UNCHANGED <<pc, request>>
          ELSE IF user_input = "/i"
          THEN /\ notice' = "System Info"
               /\ UNCHANGED <<messages, pc, request>>
          ELSE /\ Len(messages) < limit
               /\ messages' = Append(messages, UserText(user_input))
               /\ request' = <<encode_request(PROVIDER, keys, messages')>>
               /\ pc' = "call"
               /\ notice' = ""
    /\ UNCHANGED <<keys, PROVIDER, content_blocks, tool_results, idx, fs, sh, tc>>

Input(raw) == InputUpTo(raw, MaxMsgs)

\* lines 318-320, 340-341, 383-384: the provider answers with a JSON document
\* (explored while the turns it leads to keep the conversation within limit)
ApiReturnUpTo(wire, limit) ==
    /\ pc = "call"
    /\ LET r == decode_response(PROVIDER, wire)
       IN IF r.raised
          THEN /\ ReplError(r.value)
               /\ UNCHANGED <<content_blocks, tool_results, idx>>
          ELSE LET blocks == get(r.value, "content", <<>>)
               IN /\ Len(messages) + 1 + (IF Len(tool_uses(blocks)) > 0 THEN 1 ELSE 0)
                       <= limit
                  /\ content_blocks' = blocks
                  /\ tool_results' = <<>>
                  /\ idx' = 1
                  /\ pc' = "blocks"
                  /\ notice' = ""
    /\ request' = <<>>
    /\ UNCHANGED <<keys, PROVIDER, messages, fs, sh, tc>>

ApiReturn(wire) == ApiReturnUpTo(wire, MaxMsgs)

\* faulty variant: a failed call also takes the last turn back
ApiFail_rollback(err) ==
    /\ pc = "call"
    /\ ReplError(err)
    /\ request' = <<>>
    /\ messages' = SubSeq(messages, 1, Len(messages) - 1)
    /\ UNCHANGED <<keys, PROVIDER, content_blocks, tool_results, idx, fs, sh, tc>>

\* lines 318-319, 340-341: urlopen or json.loads raises (HTTP error status,
\* no connection, a body that is not JSON)
ApiFail(err) ==
    /\ pc = "call"
    /\ ReplError(err)
    /\ request' = <<>>
    /\ UNCHANGED <<keys, PROVIDER, messages, content_blocks, tool_results, idx, fs, sh, tc>>

\* lines 386-413: one iteration of the for loop
ForBlock(output_lines) ==
    /\ pc = "blocks"
    /\ idx <= Len(content_blocks)
    /\ LET block == content_blocks[idx]
       IN IF "type" \notin DOMAIN block
          THEN /\ ReplError(KeyError("type"))
               /\ UNCHANGED <<tool_results, idx, fs>>
          ELSE IF block["type"] # "tool_use"
          THEN /\ output_lines = <<>>
               /\ idx' = idx + 1
               /\ notice' = ""
               /\ UNCHANGED <<tool_results, pc, fs>>
          ELSE IF "name" \notin DOMAIN block
          THEN /\ ReplError(KeyError("name"))
               /\ UNCHANGED <<tool_results, idx, fs>>
          ELSE IF "input" \notin DOMAIN block
          THEN /\ ReplError(KeyError("input"))
               /\ UNCHANGED <<tool_results, idx, fs>>
          \* line 393: list(tool_args.values())[0]
          ELSE IF DOMAIN block["input"] = {}
          THEN /\ ReplError("list index out of range")
               /\ UNCHANGED <<tool_results, idx, fs>>
          ELSE LET r == run_tool(block["name"], block["input"], fs, output_lines)
               IN /\ block["name"] = "bash" \/ output_lines = <<>>
                  /\ fs' = r.fs
                  /\ IF r.raised
                     THEN /\ ReplError(r.value)
                          /\ UNCHANGED <<tool_results, idx>>
                     ELSE IF "id" \notin DOMAIN block
                     THEN /\ ReplError(KeyError("id"))
                          /\ UNCHANGED <<tool_results, idx>>
                     ELSE /\ tool_results' =
                               collect(tool_results, tool_result(block, r.value))
                          /\ idx' = idx + 1
                          /\ notice' = ""
                          /\ UNCHANGED pc
    /\ UNCHANGED <<keys, PROVIDER, messages, request, content_blocks, sh, tc>>

\* faulty variant: the assistant turn is put in front of the conversation
AppendAssistant_front ==
    /\ pc = "blocks"
    /\ idx > Len(content_blocks)
    /\ messages' = <<Turn("assistant", content_blocks)>> \o messages
    /\ pc' = "appended"
    /\ notice' = ""
    /\ UNCHANGED <<keys, PROVIDER, request, content_blocks, tool_results, idx, fs, sh, tc>>

\* line 415
AppendAssistant ==
    /\ pc = "blocks"
    /\ idx > Len(content_blocks)
    /\ messages' = Append(messages, Turn("assistant", content_blocks))
    /\ pc' = "appended"
    /\ notice' = ""
    /\ UNCHANGED <<keys, PROVIDER, request, content_blocks, tool_results, idx, fs, sh, tc>>

\* faulty variant: the turn ends after one response, tool results or not
Continue_stops ==
    /\ pc = "appended"
    /\ pc' = "input"
    /\ notice' = ""
    /\ UNCHANGED <<keys, PROVIDER, messages, request, content_blocks, tool_results,
                   idx, fs, sh, tc>>

\* faulty variant: the next request is sent without the tool-result turn
Continue_noresults ==
    /\ pc = "appended"
    /\ IF Len(tool_results) = 0
       THEN /\ pc' = "input"
            /\ UNCHANGED request
       ELSE /\ request' = <<encode_request(PROVIDER, keys, messages)>>
            /\ pc' = "call"
    /\ notice' = ""
    /\ UNCHANGED <<keys, PROVIDER, messages, content_blocks, tool_results, idx, fs, sh, tc>>

\* lines 417-419 and the next call_api of line 382
Continue ==
    /\ pc = "appended"
    /\ IF Len(tool_results) = 0
       THEN /\ pc' = "input"
            /\ UNCHANGED <<messages, request>>
       ELSE /\ messages' = Append(messages, Turn("user", tool_results))
            /\ request' = <<encode_request(PROVIDER, keys, messages')>>
            /\ pc' = "call"
    /\ notice' = ""
    /\ UNCHANGED <<keys, PROVIDER, content_blocks, tool_results, idx, fs, sh, tc>>

\* faulty variant: the interrupt handler also resets the conversation
Interrupt_clears ==
    /\ pc \in {"input", "call", "blocks", "appended"}
    /\ pc' = "exit"
    /\ messages' = <<>>
    /\ UNCHANGED <<keys, PROVIDER, request, content_blocks, tool_results, idx, notice,
                   fs, sh, tc>>

\* lines 423-424: KeyboardInterrupt or EOFError anywhere inside the try
Interrupt ==
    /\ pc \in {"input", "call", "blocks", "appended"}
    /\ pc' = "exit"
    /\ UNCHANGED <<keys, PROVIDER, messages, request, content_blocks, tool_results,
                   idx, notice, fs, sh, tc>>

\* a tool_use block that makes bash start a subprocess
is_shell_call(block) ==
    /\ is_tool_use(block)
    /\ "name" \in DOMAIN block
    /\ block["name"] = "bash"
    /\ "input" \in DOMAIN block
    /\ "cmd" \in DOMAIN block["input"]

\* lines 386-413 for every block but a shell call
ForOtherBlock ==
    /\ sh.pc = "idle"
    /\ idx <= Len(content_blocks)
    /\ ~is_shell_call(content_blocks[idx])
    /\ ForBlock(<<>>)

\* lines 390-398 and 126-130: the loop calls run_tool for a shell call and
\* bash starts the subprocess; main stays inside bash until it returns
RunBash ==
    /\ pc = "blocks"
    /\ idx <= Len(content_blocks)
    /\ is_shell_call(content_blocks[idx])
    /\ Popen(content_blocks[idx]["input"])

\* lines 144, 398-413: bash has returned its result to the loop
BashReturns ==
    /\ pc = "blocks"
    /\ idx <= Len(content_blocks)
    /\ sh.pc = "returned"
    /\ "id" \in DOMAIN content_blocks[idx]
    /\ tool_results' = collect(tool_results, tool_result(content_blocks[idx], sh.result))
    /\ idx' = idx + 1
    /\ notice' = ""
    /\ sh' = ShIdle
    /\ UNCHANGED <<keys, PROVIDER, messages, pc, request, content_blocks, fs, tc>>

Next ==
    \/ \E raw \in RawInputs : Input(raw)
    \/ \E wire \in WireResponses(PROVIDER) : ApiReturn(wire)
    \/ \E err \in TransportErrors : ApiFail(err)
    \/ \E output_lines \in {<<>>, <<"hi\n">>} : ForBlock(output_lines)
    \/ AppendAssistant
    \/ Continue
    \/ Interrupt

Spec == Init /\ [][Next]_vars

(***************************************************************************)
(* run_tool called directly, for every tool name and argument map of a     *)
(* set, on the files left by the calls before it.                          *)
(***************************************************************************)
ToolNames == TOOLS \cup {"search", ""}

ToolArgs == {<<>>,
             [path |-> "a.txt"],
             [path |-> "b.txt"],
             [content |-> "x"],
             [path |-> "a.txt", content |-> "x x"],
             [path |-> "a.txt", offset |-> 1, limit |-> 1],
             [path |-> "a.txt", old |-> "x"],
             [path |-> "a.txt", old |-> "x", new |-> "y"],
             [path |-> "a.txt", old |-> "x", new |-> "y", all |-> TRUE],
             [path |-> "a.txt", old |-> "q", new |-> "y"],
             [pat |-> "*"],
             [pat |-> "("],
             [pat |-> "x", path |-> "."],
             [cmd |-> "echo hi"]}

InitialFiles == {<<>>, <<[path |-> "a.txt", text |-> "x\nx y\n"]>>}

OutputSeqs == {<<>>, <<"hi\n">>, <<" \n">>}

InitTool ==
    /\ keys = [GEMINI_KEY |-> "", OPENROUTER_KEY |-> "", ANTHROPIC_KEY |-> "a-key"]
    /\ PROVIDER = provider(keys)
    /\ messages = <<>>
    /\ pc = "input"
    /\ request = <<>>
    /\ content_blocks = <<>>
    /\ tool_results = <<>>
    /\ idx = 1
    /\ notice = ""
    /\ fs \in InitialFiles
    /\ sh = ShIdle
    /\ tc = [called |-> FALSE]

ToolCall(name, args, output_lines) ==
    /\ name = "bash" \/ output_lines = <<>>
    /\ LET r == run_tool(name, args, fs, output_lines)
       IN /\ tc' = [called |-> TRUE, name |-> name, args |-> args, before |-> fs,
                    failed |-> executor(name, args, fs, output_lines).raised,
                    out |-> r]
          /\ fs' = r.fs
    /\ UNCHANGED <<keys, PROVIDER, messages, pc, request, content_blocks, tool_results,
                   idx, notice, sh>>

NextTool ==
    \E name \in ToolNames, args \in ToolArgs, output_lines \in OutputSeqs :
        ToolCall(name, args, output_lines)

SpecTool == InitTool /\ [][NextTool]_vars

(***************************************************************************)
(* bash called directly: the read loop against a subprocess that writes,   *)
(* closes its stdout and exits when it likes, while the clock runs.        *)
(***************************************************************************)
InitBash ==
    /\ keys = [GEMINI_KEY |-> "", OPENROUTER_KEY |-> "", ANTHROPIC_KEY |-> "a-key"]
    /\ PROVIDER = provider(keys)
    /\ messages = <<>>
    /\ pc = "input"
    /\ request = <<>>
    /\ content_blocks = <<>>
    /\ tool_results = <<>>
    /\ idx = 1
    /\ notice = ""
    /\ fs = <<>>
    /\ sh = ShIdle
    /\ tc = [called |-> FALSE]

NextBash ==
    \/ \E args \in {[cmd |-> "sleep 60"], [cmd |-> "echo hi"]} : Popen(args)
    \/ \E line \in Lines : ProcWrite(line)
    \/ ProcClose
    \/ ProcExit
    \/ Tick
    \/ ReadLoop
    \/ WaitAndReturn

SpecBash == InitBash /\ [][NextBash]_vars

(***************************************************************************)
(* One prompt after another on the direct Style-A backend with a provider  *)
(* that always answers and tool calls that are well formed: the agent loop *)
(* without failures and interrupts, explored to MaxRounds tool rounds.     *)
(***************************************************************************)
TurnResponses == {[content |-> <<TextBlock>>], [content |-> <<WriteUse>>],
                  [content |-> <<TextBlock, WriteUse>>],
                  [content |-> <<UnknownUse, MissingArgUse>>]}

TurnLimit == 2 * MaxRounds + 2

InitTurns ==
    /\ keys = [GEMINI_KEY |-> "", OPENROUTER_KEY |-> "", ANTHROPIC_KEY |-> "a-key"]
    /\ PROVIDER = provider(keys)
    /\ messages = <<>>
    /\ pc = "input"
    /\ request = <<>>
    /\ content_blocks = <<>>
    /\ tool_results = <<>>
    /\ idx = 1
    /\ notice = ""
    /\ fs = <<>>
    /\ sh = ShIdle
    /\ tc = [called |-> FALSE]

NextTurns ==
    \/ InputUpTo("fix it", TurnLimit)
    \/ \E wire \in TurnResponses : ApiReturnUpTo(wire, TurnLimit)
    \/ ForBlock(<<>>)
    \/ AppendAssistant
    \/ Continue

SpecTurns == InitTurns /\ [][NextTurns]_vars

(***************************************************************************)
(* The agent loop with shell calls run step by step: the provider always   *)
(* answers, nothing interrupts, and the subprocess of a shell call writes, *)
(* closes its stdout and exits when it likes, or never.  The program's own *)
(* steps, the provider's answer and the passing of time are fair.          *)
(***************************************************************************)
BashUse == [type |-> "tool_use", id |-> "toolu_5", name |-> "bash",
            input |-> [cmd |-> "sleep infinity"]]

ShellResponses == {[content |-> <<TextBlock>>], [content |-> <<BashUse>>]}

ShellLimit == 2 * MaxShellRounds + 2

InitShell ==
    /\ keys = [GEMINI_KEY |-> "", OPENROUTER_KEY |-> "", ANTHROPIC_KEY |-> "a-key"]
    /\ PROVIDER = provider(keys)
    /\ messages = <<>>
    /\ pc = "input"
    /\ request = <<>>
    /\ content_blocks = <<>>
    /\ tool_results = <<>>
    /\ idx = 1
    /\ notice = ""
    /\ fs = <<>>
    /\ sh = ShIdle
    /\ tc = [called |-> FALSE]

ShellApiReturn == \E wire \in ShellResponses : ApiReturnUpTo(wire, ShellLimit)

NextShell ==
    \/ InputUpTo("fix it", ShellLimit)
    \/ ShellApiReturn
    \/ ForOtherBlock
    \/ RunBash
    \/ \E line \in Lines : ProcWrite(line)
    \/ ProcClose
    \/ ProcExit
    \/ Tick
    \/ ReadLoop
    \/ WaitAndReturn
    \/ BashReturns
    \/ AppendAssistant
    \/ Continue

FairShell ==
    /\ WF_vars(ShellApiReturn)
    /\ WF_vars(ForOtherBlock)
    /\ WF_vars(RunBash)
    /\ WF_vars(Tick)
    /\ WF_vars(ReadLoop)
    /\ WF_vars(WaitAndReturn)
    /\ WF_vars(BashReturns)
    /\ WF_vars(AppendAssistant)
    /\ WF_vars(Continue)

SpecShell == InitShell /\ [][NextShell]_vars /\ FairShell

(***************************************************************************)
(* edit called through run_tool on one file, for every text over a two     *)
(* letter alphabet up to MaxText characters and every old, new and all of  *)
(* a set; each call acts on the text the calls before it left.             *)
(***************************************************************************)
EditTexts == {"", "a", "b", "aa", "ab", "ba", "bb", "aaa", "aba", "abab"}

EditOlds == {"", "a", "b", "aa", "ab", "aba"}

EditNews == {"", "b", "aa"}

EditArgs ==
    {[path |-> "a.txt", old |-> o, new |-> n] : o \in EditOlds, n \in EditNews}
    \cup {[path |-> "a.txt", old |-> o, new |-> n, all |-> a] :
             o \in EditOlds, n \in EditNews, a \in BOOLEAN}

InitEdit ==
    /\ keys = [GEMINI_KEY |-> "", OPENROUTER_KEY |-> "", ANTHROPIC_KEY |-> "a-key"]
    /\ PROVIDER = provider(keys)
    /\ messages = <<>>
    /\ pc = "input"
    /\ request = <<>>
    /\ content_blocks = <<>>
    /\ tool_results = <<>>
    /\ idx = 1
    /\ notice = ""
    /\ fs \in {<<[path |-> "a.txt", text |-> t]>> : t \in {e \in EditTexts : Len(e) <= MaxText}}
    /\ sh = ShIdle
    /\ tc = [called |-> FALSE]

NextEdit ==
    \E args \in EditArgs :
        /\ Len(filetext(fs, "a.txt")) <= MaxText
        /\ ToolCall("edit", args, <<>>)

SpecEdit == InitEdit /\ [][NextEdit]_vars

(***************************************************************************)
(* Properties.                                                             *)
(***************************************************************************)
blocks_of(turn) == IF isstr(turn.content) THEN <<>> ELSE turn.content.list

is_tool_result(block) == "type" \in DOMAIN block /\ block["type"] = "tool_result"

has_tool_result(turn) ==
    \E j \in 1..Len(blocks_of(turn)) : is_tool_result(blocks_of(turn)[j])

has_tool_use(turn) == Len(tool_uses(blocks_of(turn))) > 0

InLoop == pc \in {"call", "blocks", "appended"}

\* C1: every turn holding tool_result blocks has role user, directly follows
\* an assistant turn, and each of its tool_use_ids is the id of a tool_use
\* block of that assistant turn; a turn holding tool_result blocks is only
\* ever appended by the loop (line 419), never by the step that reads input.
C1_ResultsFollowToolUse ==
    /\ [](\A i \in 1..Len(messages) :
            has_tool_result(messages[i]) =>
                /\ messages[i].role = "user"
                /\ i > 1
                /\ messages[i - 1].role = "assistant"
                /\ \A j \in 1..Len(blocks_of(messages[i])) :
                       LET res == blocks_of(messages[i])[j]
                           uses == tool_uses(blocks_of(messages[i - 1]))
                       IN is_tool_result(res) =>
                              \E u \in 1..Len(uses) : uses[u]["id"] = res["tool_use_id"])
    /\ [][(Len(messages') > Len(messages) /\ has_tool_result(messages'[Len(messages')]))
            => (pc = "appended" /\ messages' = Append(messages, Turn("user", tool_results)))]_vars

C1_Witness ==
    \E i \in 1..Len(messages) :
        /\ has_tool_result(messages[i])
        /\ Len(blocks_of(messages[i])) = 2
        /\ blocks_of(messages[i])[1]["tool_use_id"] # blocks_of(messages[i])[2]["tool_use_id"]

\* C2: bash is never still blocked more than Timeout seconds after Popen, and
\* a subprocess that outlived the budget has been killed and the returned
\* string ends with the timeout marker.
C2_BudgetEnforced ==
    /\ sh.pc \in {"readline", "wait"} => sh.clock <= Timeout
    /\ (sh.pc = "returned" /\ sh.returned_at > Timeout) =>
           /\ sh.proc = "killed"
           /\ endswith(sh.result, strip(TimeoutMarker))

\* C3: a step out of call_api that reports an error leaves the conversation
\* as it was (its last turn the user or tool-result turn that was sent, no
\* assistant turn added), sends no new request, and puts the REPL back at
\* input(); nothing but a reported error takes the REPL from the call to input().
C3_FailedCallKeepsConversation ==
    [][(pc = "call" /\ (notice' # "" \/ pc' = "input")) =>
          /\ pc' = "input"
          /\ startswith(notice', "Error: ")
          /\ messages' = messages
          /\ Len(messages) > 0
          /\ messages[Len(messages)].role = "user"
          /\ request' = <<>>]_vars

C3_Witness ==
    /\ pc = "input"
    /\ notice \in {"Error: " \o e : e \in TransportErrors}
    /\ Len(messages) = 3
    /\ has_tool_result(messages[3])

\* C4: the for loop's step on a tool_use block always collects one
\* tool_result for it and goes on; it never ends at the REPL's error handler.
C4_ToolUseNeverAborts ==
    [][(pc = "blocks" /\ idx <= Len(content_blocks) /\ is_tool_use(content_blocks[idx])
        /\ pc' # "exit") =>
          /\ pc' = "blocks"
          /\ notice' = ""
          /\ Len(tool_results') = Len(tool_results) + 1
          /\ idx' = idx + 1]_vars

\* C5: run_tool returns a string and never raises, for every tool name and
\* argument map; when the executor raised, when the tool is not registered
\* and when edit did not report "ok", the string starts with "error: ".
C5_RunToolNeverRaises ==
    tc.called =>
        /\ ~tc.out.raised
        /\ tc.failed => startswith(tc.out.value, "error: ")
        /\ tc.name \notin TOOLS => startswith(tc.out.value, "error: ")
        /\ tc.name = "edit" => (tc.out.value = "ok" \/ startswith(tc.out.value, "error: "))

C5_Witness ==
    /\ tc.called
    /\ tc.name = "grep"
    /\ tc.failed
    /\ tc.out.value = "error: missing ), unterminated subpattern at position 0"

\* C6: the step that ends the for loop appends one assistant turn holding the
\* response's blocks in order; the step after it returns to input() exactly
\* when the response held no tool_use block, and otherwise appends one user
\* turn holding all tool results and sends the next request; the loop is left
\* for input() only that way or by a reported error.
C6_LoopContinuesIffToolUse ==
    /\ [][(pc = "blocks" /\ pc' = "appended") =>
             /\ idx > Len(content_blocks)
             /\ messages' = Append(messages, Turn("assistant", content_blocks))]_vars
    /\ [][(pc = "appended" /\ pc' \notin {"appended", "exit"}) =>
             IF Len(tool_uses(content_blocks)) = 0
             THEN pc' = "input" /\ messages' = messages /\ request' = <<>>
             ELSE /\ pc' = "call"
                  /\ Len(tool_results) = Len(tool_uses(content_blocks))
                  /\ messages' = Append(messages, Turn("user", tool_results))
                  /\ request' = <<encode_request(PROVIDER, keys, messages')>>]_vars
    /\ [][(InLoop /\ pc' = "input") =>
             \/ startswith(notice', "Error: ") /\ messages' = messages
             \/ pc = "appended" /\ Len(tool_uses(content_blocks)) = 0]_vars
    /\ [][(InLoop /\ messages' # messages) => pc \in {"blocks", "appended"}]_vars

C6_Witness ==
    /\ pc = "call"
    /\ Len(messages) = 3
    /\ blocks_of(messages[2]) = <<TextBlock, WriteUse>>
    /\ has_tool_result(messages[3])

\* C7: while the blocks of a response are processed no request is out, and
\* the results collected so far are those of the tool_use blocks before the
\* loop's position, one each, in order and with their ids; a tool-result
\* turn holds one result per tool_use block of the assistant turn before it,
\* the i-th with the i-th id.
results_match(results, uses) ==
    /\ Len(results) = Len(uses)
    /\ \A i \in 1..Len(results) : results[i]["tool_use_id"] = uses[i]["id"]

C7_ResultsInOrder ==
    /\ pc \in {"blocks", "appended"} =>
           /\ request = <<>>
           /\ idx <= Len(content_blocks) + 1
           /\ results_match(tool_results, tool_uses(SubSeq(content_blocks, 1, idx - 1)))
    /\ request # <<>> => pc \in {"call", "exit"}
    /\ \A i \in 1..Len(messages) :
           has_tool_result(messages[i]) =>
               /\ i > 1
               /\ results_match(blocks_of(messages[i]),
                                tool_uses(blocks_of(messages[i - 1])))

C7_Witness ==
    /\ pc = "call"
    /\ Len(messages) = 3
    /\ Len(blocks_of(messages[3])) = 2
    /\ blocks_of(messages[3])[1]["tool_use_id"] # blocks_of(messages[3])[2]["tool_use_id"]
    /\ blocks_of(messages[3])[1]["content"] = "ok"

\* C8 as claimed: a turn in progress never ends with the REPL gone (an
\* interrupt returns the loop to input()).
C8_InterruptReturnsToInput == [][InLoop => pc' # "exit"]_vars

\* C8 as amended: an interrupt during a turn ends the REPL; the step appends
\* and removes nothing, and once the REPL has exited nothing happens any more.
C8_InterruptExits ==
    /\ [](InLoop => ENABLED Interrupt)
    /\ [][(InLoop /\ pc' = "exit") =>
             /\ messages' = messages
             /\ content_blocks' = content_blocks
             /\ tool_results' = tool_results]_vars
    /\ [][pc = "exit" => UNCHANGED vars]_vars

C8_Witness ==
    /\ pc = "exit"
    /\ request # <<>>
    /\ Len(messages) = 3
    /\ has_tool_result(messages[3])

\* C9: when a turn has completed (the REPL is at input() and the last turn is
\* an assistant turn), the turns from the last typed prompt on are: the
\* prompt, then k times an assistant turn with a tool_use block followed by a
\* user turn of tool results, then one assistant turn without tool_use:
\* 2k+2 turns, 4 for k = 1.
RECURSIVE last_prompt(_, _)
last_prompt(msgs, i) ==
    IF i = 0 THEN 0
    ELSE IF isstr(msgs[i].content) THEN i
    ELSE last_prompt(msgs, i - 1)

rounds(msgs, p) == Cardinality({i \in p..Len(msgs) : has_tool_use(msgs[i])})

C9_TurnShape ==
    (pc = "input" /\ Len(messages) > 0 /\ messages[Len(messages)].role = "assistant") =>
        LET p == last_prompt(messages, Len(messages))
            k == rounds(messages, p)
        IN /\ p >= 1
           /\ messages[p].role = "user"
           /\ Len(messages) - p + 1 = 2 * k + 2
           /\ \A j \in 1..k :
                  /\ messages[p + 2 * j - 1].role = "assistant"
                  /\ has_tool_use(messages[p + 2 * j - 1])
                  /\ messages[p + 2 * j].role = "user"
                  /\ has_tool_result(messages[p + 2 * j])
           /\ ~has_tool_use(messages[Len(messages)])

C9_Witness ==
    /\ pc = "input"
    /\ Len(messages) = 6
    /\ isstr(messages[1].content)
    /\ has_tool_use(messages[2])
    /\ has_tool_result(messages[3])
    /\ has_tool_use(messages[4])
    /\ has_tool_result(messages[5])
    /\ messages[6] = Turn("assistant", <<TextBlock>>)

\* C10: every turn of the conversation has non-empty content, and no request
\* carries a turn with empty content.
nonempty(content) == IF isstr(content) THEN content.str # "" ELSE Len(content.list) > 0

sent_nonempty(req) ==
    IF "contents" \in DOMAIN req.body
    THEN \A i \in 1..Len(req.body.contents) : Len(req.body.contents[i].parts) > 0
    ELSE \A i \in 1..Len(req.body.messages) : nonempty(req.body.messages[i].content)

C10_NoEmptyTurn ==
    /\ \A i \in 1..Len(messages) : nonempty(messages[i].content)
    /\ request # <<>> => sent_nonempty(request[1])

\* C11: on every backend each tool_use block handed to the loop has a
\* non-empty id; on the Gemini backend that id is the function name followed
\* by "_call"; and the tool-result turn that follows an assistant turn carries
\* the ids of its tool_use blocks, each non-empty.
C11_ToolUseIds ==
    /\ \A i \in 1..Len(content_blocks) :
           is_tool_use(content_blocks[i]) =>
               /\ "id" \in DOMAIN content_blocks[i]
               /\ content_blocks[i]["id"] # ""
               /\ PROVIDER = "gemini" =>
                      content_blocks[i]["id"] = content_blocks[i]["name"] \o "_call"
    /\ \A i \in 1..Len(tool_results) : tool_results[i]["tool_use_id"] # ""
    /\ \A i \in 2..Len(messages) :
           has_tool_result(messages[i]) =>
               LET uses == tool_uses(blocks_of(messages[i - 1]))
                   res == blocks_of(messages[i])
               IN /\ Len(res) = Len(uses)
                  /\ \A j \in 1..Len(res) :
                         /\ res[j]["tool_use_id"] = uses[j]["id"]
                         /\ res[j]["tool_use_id"] # ""

C11_Witness ==
    /\ PROVIDER = "gemini"
    /\ Len(messages) = 3
    /\ Len(blocks_of(messages[3])) = 2
    /\ blocks_of(messages[3])[1]["tool_use_id"] = "write_call"
    /\ blocks_of(messages[3])[2]["tool_use_id"] = "write_call"

\* C12: edit, for every text, old and new.  The occurrences of old are
\* counted as str.count counts them: scanning left to right, an occurrence
\* starting where the one before it has ended at the earliest (an empty old
\* occurs before every character and at the end).  With no occurrence the
\* result is the not-found error and the file is unchanged; with exactly one
\* that occurrence is replaced and the result is "ok"; with two or more and
\* all not set the result is the error stating their number and the file is
\* unchanged; with all set every occurrence is replaced.
matches_at(text, old, i) ==
    /\ i + Len(old) - 1 <= Len(text)
    /\ \A k \in 1..Len(old) : SubSeq(text, i + k - 1, i + k - 1) = SubSeq(old, k, k)

RECURSIVE occurrences(_, _, _)
occurrences(text, old, from) ==
    LET starts == {i \in from..(Len(text) + 1) : matches_at(text, old, i)}
    IN IF starts = {} THEN <<>>
       ELSE LET i == CHOOSE m \in starts : \A o \in starts : m <= o
            IN <<i>> \o occurrences(text, old,
                                    i + (IF Len(old) = 0 THEN 1 ELSE Len(old)))

splice(text, old, new, i) ==
    SubSeq(text, 1, i - 1) \o new \o SubSeq(text, i + Len(old), Len(text))

\* every occurrence replaced, the last one first
RECURSIVE splice_all(_, _, _, _)
splice_all(text, old, new, pos) ==
    IF Len(pos) = 0 THEN text
    ELSE splice_all(splice(text, old, new, pos[Len(pos)]), old, new,
                    SubSeq(pos, 1, Len(pos) - 1))

C12_EditContract ==
    (tc.called /\ tc.name = "edit") =>
        LET text == filetext(tc.before, tc.args["path"])
            old == tc.args["old"]
            new == tc.args["new"]
            all == "all" \in DOMAIN tc.args /\ tc.args["all"]
            pos == occurrences(text, old, 1)
            after == filetext(tc.out.fs, tc.args["path"])
        IN /\ ~tc.out.raised
           /\ Len(pos) = 0 =>
                  /\ tc.out.value = "error: old_string not found"
                  /\ tc.out.fs = tc.before
           /\ Len(pos) = 1 =>
                  /\ tc.out.value = "ok"
                  /\ after = splice(text, old, new, pos[1])
           /\ (Len(pos) >= 2 /\ ~all) =>
                  /\ tc.out.value = "error: old_string appears " \o str(Len(pos))
                                      \o " times, must be unique (use all=true)"
                  /\ tc.out.value # "error: old_string not found"
                  /\ tc.out.fs = tc.before
           /\ (Len(pos) >= 1 /\ all) =>
                  /\ tc.out.value = "ok"
                  /\ after = splice_all(text, old, new, pos)

C12_Witness ==
    /\ tc.called
    /\ tc.name = "edit"
    /\ filetext(tc.before, "a.txt") = "aba"
    /\ tc.args = [path |-> "a.txt", old |-> "a", new |-> "b"]
    /\ tc.out.value = "error: old_string appears 2 times, must be unique (use all=true)"
    /\ filetext(fs, "a.txt") = "aba"

\* C13: a Gemini document without a candidates key or with an empty
\* candidates list is decoded, without an error, to the single text block
\* "No response from Gemini."; the step that receives it hands exactly that
\* block to the loop; the loop runs no tool for it, appends it as one
\* assistant turn and returns to input() with no request sent.
NoCandidates == {[promptFeedback |-> "blocked"], [candidates |-> <<>>]}

NoResponse == <<[type |-> "text", text |-> "No response from Gemini."]>>

C13_NoCandidates ==
    /\ [](\A wire \in NoCandidates :
             /\ ~convert_gemini_response(wire).raised
             /\ convert_gemini_response(wire).value = [content |-> NoResponse])
    /\ [][\A wire \in NoCandidates :
             (PROVIDER = "gemini" /\ ApiReturn(wire)) =>
                 /\ pc' = "blocks"
                 /\ notice' = ""
                 /\ content_blocks' = NoResponse
                 /\ tool_results' = <<>>]_vars
    /\ [][(PROVIDER = "gemini" /\ content_blocks = NoResponse
           /\ pc \in {"blocks", "appended"} /\ pc' # "exit") =>
             /\ tool_results' = <<>>
             /\ request' = <<>>
             /\ notice' = ""
             /\ pc' \in {"blocks", "appended", "input"}
             /\ pc' = "appended" => messages' = Append(messages, Turn("assistant", NoResponse))
             /\ pc' = "input" =>
                    /\ messages' = messages
                    /\ messages[Len(messages)] = Turn("assistant", NoResponse)]_vars

C13_Witness ==
    /\ PROVIDER = "gemini"
    /\ pc = "input"
    /\ request = <<>>
    /\ Len(messages) = 2
    /\ messages[1] = UserText("fix it")
    /\ messages[2] = Turn("assistant", NoResponse)

\* C14: PROVIDER is "gemini" exactly when the Gemini credential is present,
\* "openrouter" exactly when it is absent and the OpenRouter credential is
\* present, "anthropic" exactly when both are absent; no step changes
\* PROVIDER or the credentials; and every request goes to the endpoint of
\* PROVIDER, in its wire format, carrying its credential and no other.
C14_ProviderFixed ==
    /\ [](/\ (PROVIDER = "gemini") = (keys.GEMINI_KEY # "")
          /\ (PROVIDER = "openrouter") = (keys.GEMINI_KEY = "" /\ keys.OPENROUTER_KEY # "")
          /\ (PROVIDER = "anthropic") = (keys.GEMINI_KEY = "" /\ keys.OPENROUTER_KEY = ""))
    /\ [][PROVIDER' = PROVIDER /\ keys' = keys]_vars
    /\ [](request # <<>> =>
            LET req == request[1]
            IN CASE PROVIDER = "gemini" ->
                      /\ startswith(req.url, "https://generativelanguage.googleapis.com/")
                      /\ endswith(req.url, "?key=" \o keys.GEMINI_KEY)
                      /\ DOMAIN req.headers = {"ContentType"}
                      /\ DOMAIN req.body = {"contents", "tools", "systemInstruction"}
                      /\ \A t \in TOOLS :
                             "parameters" \in DOMAIN req.body.tools.functionDeclarations[t]
                 [] PROVIDER = "openrouter" ->
                      /\ req.url = "https://openrouter.ai/api/v1/messages"
                      /\ req.headers["Authorization"] = "Bearer " \o keys.OPENROUTER_KEY
                      /\ "x_api_key" \notin DOMAIN req.headers
                      /\ req.body.messages = messages
                      /\ \A t \in TOOLS : "input_schema" \in DOMAIN req.body.tools[t]
                 [] PROVIDER = "anthropic" ->
                      /\ req.url = "https://api.anthropic.com/v1/messages"
                      /\ req.headers["x_api_key"] = keys.ANTHROPIC_KEY
                      /\ "Authorization" \notin DOMAIN req.headers
                      /\ req.body.messages = messages
                      /\ \A t \in TOOLS : "input_schema" \in DOMAIN req.body.tools[t]
                 [] OTHER -> FALSE)

C14_Witness ==
    /\ keys = [GEMINI_KEY |-> "", OPENROUTER_KEY |-> "or-key", ANTHROPIC_KEY |-> "a-key"]
    /\ PROVIDER = "openrouter"
    /\ pc = "call"
    /\ request # <<>>
    /\ Len(messages) = 3
    /\ request[1].headers["Authorization"] = "Bearer or-key"

\* C15: when bash has returned within Timeout seconds for a subprocess that
\* exited, its result is the text the subprocess wrote, all lines in the
\* order written, without the white space at its two ends; and it is
\* "(empty)" when nothing but white space (or nothing at all) was written.
blank(s) == \A k \in 1..Len(s) : IsSpace(SubSeq(s, k, k))

trimmed_to(s, t) ==
    \E i \in 1..Len(s), j \in 1..Len(s) :
        /\ i <= j
        /\ t = SubSeq(s, i, j)
        /\ ~IsSpace(SubSeq(s, i, i))
        /\ ~IsSpace(SubSeq(s, j, j))
        /\ blank(SubSeq(s, 1, i - 1))
        /\ blank(SubSeq(s, j + 1, Len(s)))

RECURSIVE produced(_)
produced(lines) == IF Len(lines) = 0 THEN "" ELSE produced(SubSeq(lines, 1, Len(lines) - 1))
                                                  \o lines[Len(lines)]

C15_ResultIsTrimmedOutput ==
    (sh.pc = "returned" /\ sh.proc = "exited" /\ sh.returned_at <= Timeout) =>
        /\ sh.output_lines = sh.written
        /\ IF blank(produced(sh.written))
           THEN sh.result = "(empty)"
           ELSE trimmed_to(produced(sh.written), sh.result)

C15_Witness ==
    /\ sh.pc = "returned"
    /\ sh.proc = "exited"
    /\ sh.returned_at <= Timeout
    /\ sh.written = <<" \n", "hi\n">>
    /\ sh.result = "hi"

\* C16: for a conversation without tool_use and tool_result blocks, the
\* Gemini request holds one contents entry per turn, in order, with the role
\* "user" kept and "assistant" renamed "model" and with the turn's texts in
\* order; a Gemini document made of text parts only is decoded to one text
\* block per part, same texts, same order; a Style-A request holds the
\* conversation itself and a Style-A document is handed on as it is.
pure_text(msgs) == \A i \in 1..Len(msgs) : ~has_tool_use(msgs[i]) /\ ~has_tool_result(msgs[i])

texts_of(turn) ==
    IF isstr(turn.content) THEN <<turn.content.str>>
    ELSE [j \in 1..Len(turn.content.list) |-> turn.content.list[j]["text"]]

TextParts == {[text |-> "done"], [text |-> "ok"], [text |-> ""]}

TextOnlyParts == {<<>>} \cup {<<a>> : a \in TextParts}
                 \cup {<<a, b>> : a \in TextParts, b \in TextParts}

C16_TextRoundTrip ==
    /\ (request # <<>> /\ PROVIDER = "gemini" /\ pure_text(messages)) =>
           LET contents == request[1].body.contents
           IN /\ Len(contents) = Len(messages)
              /\ \A i \in 1..Len(messages) :
                     /\ contents[i].role =
                            (IF messages[i].role = "assistant" THEN "model" ELSE "user")
                     /\ Len(contents[i].parts) = Len(texts_of(messages[i]))
                     /\ \A j \in 1..Len(contents[i].parts) :
                            contents[i].parts[j] = [text |-> texts_of(messages[i])[j]]
    /\ \A parts \in TextOnlyParts :
           LET r == convert_gemini_response(GeminiCandidate(parts))
           IN /\ ~r.raised
              /\ Len(r.value.content) = Len(parts)
              /\ \A j \in 1..Len(parts) :
                     r.value.content[j] = [type |-> "text", text |-> parts[j]["text"]]
    /\ (request # <<>> /\ PROVIDER # "gemini") => request[1].body.messages = messages
    /\ \A wire \in StyleAResponses :
           decode_response("anthropic", wire) = [raised |-> FALSE, value |-> wire]

\* C17: every step leaves the conversation as it was or appends one turn to
\* it, the turns already there staying as they are and where they are; the
\* one exception is the step that reads the clear command, which empties it.
\* No step of the agent loop is that exception.
is_prefix(a, b) == Len(a) <= Len(b) /\ SubSeq(b, 1, Len(a)) = a

C17_AppendOnly ==
    /\ [][\/ messages' = messages
          \/ Len(messages') = Len(messages) + 1 /\ is_prefix(messages, messages')
          \/ pc = "input" /\ messages' = <<>> /\ notice' = "Cleared conversation"]_vars
    /\ [][InLoop => is_prefix(messages, messages')]_vars
    /\ [][(pc = "input" /\ pc' = "call") =>
             (Len(messages') = Len(messages) + 1 /\ is_prefix(messages, messages'))]_vars

C17_Witness ==
    /\ pc = "input"
    /\ Len(messages) = 4
    /\ messages[1] = UserText("fix it")
    /\ messages[2] = Turn("assistant", <<WriteUse>>)
    /\ has_tool_result(messages[3])
    /\ messages[4] = Turn("assistant", <<TextBlock>>)

\* C18: with a provider that answers and no interrupt, a request is always
\* followed by the REPL being back at input() with the turn complete, and a
\* shell call that bash has started is always followed by bash having
\* returned its result to the loop, whether the subprocess exits or not.
C18_TurnCompletes ==
    /\ (pc = "call") ~> (pc = "input")
    /\ (sh.pc = "readline") ~> (sh.pc = "returned")

\* C19: while a request is with the provider the conversation is not empty,
\* its last turn has role user and is a typed prompt or a turn of tool
\* results, and the request was built from exactly this conversation (so
\* the last entry it carries is a user entry); the REPL is inside call_api
\* only with such a request.
C19_RequestEndsWithUser ==
    /\ pc = "call" => request # <<>>
    /\ request # <<>> =>
           /\ Len(messages) > 0
           /\ messages[Len(messages)].role = "user"
           /\ \/ isstr(messages[Len(messages)].content)
              \/ has_tool_result(messages[Len(messages)])
           /\ request[1] = encode_request(PROVIDER, keys, messages)
           /\ LET sent == IF PROVIDER = "gemini" THEN request[1].body.contents
                          ELSE request[1].body.messages
              IN Len(sent) > 0 /\ sent[Len(sent)].role = "user"

C19_Witness ==
    /\ pc = "call"
    /\ request # <<>>
    /\ Len(messages) = 4
    /\ messages[1] = UserText("fix it")
    /\ messages[2] = UserText("fix it")
    /\ has_tool_result(messages[4])

\* C20: a step that reads a line made of white space only or the "/i"
\* token leaves the conversation as it is and sends nothing; one that reads
\* "/c" empties the conversation and sends nothing; one that reads "/q" or
\* "exit" ends the REPL and sends nothing; one that reads any other line
\* appends it, stripped, as a user turn and sends the request.  The tokens
\* are recognised with white space around them.  No request is out while
\* the REPL is at input(), and no typed turn of the conversation is empty or
\* a control token.
EmptyInputs == {"", "  "}

InfoInputs == {"/i"}

ClearInputs == {"/c", " /c "}

QuitInputs == {"/q", "exit"}

Prompts == {"fix it", " fix it "}

C20_ControlInputs ==
    /\ [](RawInputs = EmptyInputs \cup InfoInputs \cup ClearInputs \cup QuitInputs
                         \cup Prompts)
    /\ [][\A raw \in RawInputs :
             Input(raw) =>
                 /\ raw \in EmptyInputs \cup InfoInputs =>
                        messages' = messages /\ request' = <<>> /\ pc' = "input"
                 /\ raw \in ClearInputs =>
                        messages' = <<>> /\ request' = <<>> /\ pc' = "input"
                 /\ raw \in QuitInputs =>
                        messages' = messages /\ request' = <<>> /\ pc' = "exit"
                 /\ raw \in Prompts =>
                        /\ messages' = Append(messages, UserText("fix it"))
                        /\ request' = <<encode_request(PROVIDER, keys, messages')>>
                        /\ pc' = "call"]_vars
    /\ [](pc = "input" => request = <<>>)
    /\ [](\A i \in 1..Len(messages) :
             isstr(messages[i].content) =>
                 messages[i].content.str \notin {"", "/i", "/c", "/q", "exit"})

C20_Witness ==
    /\ pc = "input"
    /\ notice = "Cleared conversation"
    /\ messages = <<>>
    /\ Len(content_blocks) > 0
    /\ request = <<>>

====
